---- MODULE Spec2Model ----
(***************************************************************************)
(* Model of app.py: a Streamlit script that reads a .docx file, splits its *)
(* paragraphs into questions and answers, and asks the Azure Language      *)
(* service for an abstractive summary of the answers.                      *)
(*                                                                         *)
(* A Python str is modelled as a sequence of one-character strings, so     *)
(* that strip, endswith, "in", join and f-string concatenation are         *)
(* computed character by character.                                        *)
(***************************************************************************)
EXTENDS Naturals, Sequences, FiniteSets

VARIABLES
    uploaded_file,      \* st.file_uploader value (line 75)
    AZURE_KEY,          \* sidebar text input (line 10)
    AZURE_ENDPOINT,     \* sidebar text input (line 11)
    clicked,            \* value st.button returns in the current script run
    button_shown,       \* the last script run rendered the button (line 81)
    caller,             \* who called the helper functions: the script or a direct call
    pc,                 \* position of the current script run
    lines,              \* result of read_docx / argument of split_qa
    questions,          \* local list of split_qa
    answers,            \* local list of split_qa
    questions_txt,      \* first string returned by split_qa
    answers_txt,        \* second string returned by split_qa
    text_to_summarize,  \* argument of summarize_with_azure
    client,             \* TextAnalyticsClient built by get_language_client
    request_sent,       \* begin_abstract_summary was called
    result,             \* what the remote call produced
    summary_txt,        \* value returned by summarize_with_azure
    raised,             \* exception that left summarize_with_azure or the script
    shown,              \* elements rendered by the current script run, in order
    stages              \* pipeline stages the current script run has executed

vars ==
    <<uploaded_file, AZURE_KEY, AZURE_ENDPOINT, clicked, button_shown, caller,
      pc, lines, questions, answers, questions_txt, answers_txt,
      text_to_summarize, client, request_sent, result, summary_txt, raised,
      shown, stages>>

-----------------------------------------------------------------------------
(* Bounds of the model *)

MaxParas ==
    2
MaxLines ==
    3
MaxFragments ==
    2

-----------------------------------------------------------------------------
(* String literals of app.py *)

NL ==
    "\n"
SP ==
    " "
\* The characters str.strip() removes, among those the inputs below use.
Whitespace ==
    {" ", "\t", "\n"}
UserA ==
    <<"U", "s", "e", "r", " ", "A", ":">>
QuestionMark ==
    <<"?">>
QuestionLabel ==
    <<"Q", "u", "e", "s", "t", "i", "o", "n", ":">>
NoTextMsg ==
    <<"N", "o", " ", "a", "n", "s", "w", "e", "r", " ", "t", "e", "x", "t", " ", "p", "r", "o", "v", "i", "d", "e", "d", " ", "t", "o", " ", "s", "u", "m", "m", "a", "r", "i", "z", "e", ".">>
ServiceErrorPrefix ==
    <<"A", "z", "u", "r", "e", " ", "S", "e", "r", "v", "i", "c", "e", " ", "E", "r", "r", "o", "r", ":", " ">>
NoSummaryMsg ==
    <<"A", "I", " ", "c", "o", "u", "l", "d", " ", "n", "o", "t", " ", "g", "e", "n", "e", "r", "a", "t", "e", " ", "a", " ", "s", "u", "m", "m", "a", "r", "y", ".">>
LogicErrorPrefix ==
    <<"L", "o", "g", "i", "c", " ", "E", "r", "r", "o", "r", ":", " ">>
EmptyFileMsg ==
    <<"T", "h", "e", " ", "u", "p", "l", "o", "a", "d", "e", "d", " ", "f", "i", "l", "e", " ", "a", "p", "p", "e", "a", "r", "s", " ", "t", "o", " ", "b", "e", " ", "e", "m", "p", "t", "y", ".">>
CompleteMsg ==
    <<" ", "A", "n", "a", "l", "y", "s", "i", "s", " ", "C", "o", "m", "p", "l", "e", "t", "e", "!">>
CriticalErrorPrefix ==
    <<"C", "r", "i", "t", "i", "c", "a", "l", " ", "E", "r", "r", "o", "r", ":", " ">>
CredentialsMsg ==
    <<"P", "l", "e", "a", "s", "e", " ", "e", "n", "t", "e", "r", " ", "y", "o", "u", "r", " ", "A", "z", "u", "r", "e", " ", "L", "a", "n", "g", "u", "a", "g", "e", " ", "K", "e", "y", " ", "a", "n", "d", " ", "E", "n", "d", "p", "o", "i", "n", "t", " ", "i", "n", " ", "t", "h", "e", " ", "s", "i", "d", "e", "b", "a", "r", ".">>
UploadMsg ==
    <<" ", "P", "l", "e", "a", "s", "e", " ", "u", "p", "l", "o", "a", "d", " ", "a", " ", ".", "d", "o", "c", "x", " ", "f", "i", "l", "e", " ", "t", "o", " ", "g", "e", "t", " ", "s", "t", "a", "r", "t", "e", "d", ".">>

\* A Python name that is not bound yet; no str equals it.
None ==
    <<"None">>

-----------------------------------------------------------------------------
(* Python str methods used by app.py *)

RECURSIVE lstrip(_)
lstrip(s) ==
    IF s # <<>> /\ Head(s) \in Whitespace THEN lstrip(Tail(s)) ELSE s

RECURSIVE rstrip(_)
rstrip(s) ==
    IF s # <<>> /\ s[Len(s)] \in Whitespace
    THEN rstrip(SubSeq(s, 1, Len(s) - 1))
    ELSE s

strip(s) ==
    rstrip(lstrip(s))

endswith(s, suffix) ==
    /\ Len(s) >= Len(suffix)
    /\ SubSeq(s, Len(s) - Len(suffix) + 1, Len(s)) = suffix

\* sub in s
contains(sub, s) ==
    \E i \in 1..(Len(s) + 1) :
        /\ i + Len(sub) - 1 <= Len(s)
        /\ SubSeq(s, i, i + Len(sub) - 1) = sub

\* sep.join(xs)
RECURSIVE join(_, _)
join(sep, xs) ==
    IF xs = <<>> THEN <<>>
    ELSE IF Len(xs) = 1 THEN xs[1]
    ELSE xs[1] \o sep \o join(sep, Tail(xs))

-----------------------------------------------------------------------------
(* Helper functions of app.py *)

\* read_docx, line 22: the stripped text of every paragraph whose stripped
\* text is not empty.
RECURSIVE read_paragraphs(_)
read_paragraphs(paras) ==
    IF paras = <<>> THEN <<>>
    ELSE IF strip(Head(paras)) # <<>>
         THEN <<strip(Head(paras))>> \o read_paragraphs(Tail(paras))
         ELSE read_paragraphs(Tail(paras))

\* docx.Document(file) raises on a payload that is no .docx package.
read_docx_raises(file) ==
    file.kind = "malformed"

read_docx(file) ==
    read_paragraphs(file.paragraphs)

\* A variant of line 35 that forgets the "User A:" label.
IsQuestion_NoUserA(line) ==
    \/ endswith(line, QuestionMark)
    \/ contains(QuestionLabel, line)

\* split_qa, line 35.
IsQuestion(line) ==
    \/ endswith(line, QuestionMark)
    \/ contains(UserA, line)
    \/ contains(QuestionLabel, line)

\* A variant of lines 35-38 without the else: a question is appended to
\* both lists.
RECURSIVE split_loop_NoElse(_, _, _)
split_loop_NoElse(ls, q, a) ==
    IF ls = <<>> THEN [questions |-> q, answers |-> a]
    ELSE IF IsQuestion(Head(ls))
         THEN split_loop_NoElse(Tail(ls), Append(q, Head(ls)), Append(a, Head(ls)))
         ELSE split_loop_NoElse(Tail(ls), q, Append(a, Head(ls)))

\* split_qa, lines 30-38: the loop over the lines.
RECURSIVE split_loop(_, _, _)
split_loop(ls, q, a) ==
    IF ls = <<>> THEN [questions |-> q, answers |-> a]
    ELSE IF IsQuestion(Head(ls))
         THEN split_loop(Tail(ls), Append(q, Head(ls)), a)
         ELSE split_loop(Tail(ls), q, Append(a, Head(ls)))

\* A variant of line 40 that joins with a space instead of a newline.
split_qa_SpaceJoined(ls) ==
    LET r == split_loop(ls, <<>>, <<>>)
    IN  [questions     |-> r.questions,
         answers       |-> r.answers,
         questions_txt |-> join(<<SP>>, r.questions),
         answers_txt   |-> join(<<SP>>, r.answers)]

\* split_qa, line 40: the two lists and the two strings returned.
split_qa(ls) ==
    LET r == split_loop(ls, <<>>, <<>>)
    IN  [questions     |-> r.questions,
         answers       |-> r.answers,
         questions_txt |-> join(<<NL>>, r.questions),
         answers_txt   |-> join(<<NL>>, r.answers)]

\* A variant of line 62 that joins the fragments without a separator.
RECURSIVE summarize_docs_NoSeparator(_, _)
summarize_docs_NoSeparator(docs, summary_out) ==
    IF docs = <<>>
    THEN IF summary_out # <<>> THEN join(<<>>, summary_out) ELSE NoSummaryMsg
    ELSE IF ~Head(docs).is_error
         THEN summarize_docs_NoSeparator(Tail(docs),
                                         summary_out \o Head(docs).summaries)
         ELSE ServiceErrorPrefix \o Head(docs).error_message

\* summarize_with_azure, lines 54-62: the loop over the returned documents.
RECURSIVE summarize_docs(_, _)
summarize_docs(docs, summary_out) ==
    IF docs = <<>>
    THEN IF summary_out # <<>> THEN join(<<SP>>, summary_out) ELSE NoSummaryMsg
    ELSE IF ~Head(docs).is_error
         THEN summarize_docs(Tail(docs), summary_out \o Head(docs).summaries)
         ELSE ServiceErrorPrefix \o Head(docs).error_message

-----------------------------------------------------------------------------
(* Inputs *)

\* Raw paragraph texts of uploaded documents.
P_Ok ==
    <<" ", "O", "k", "?", " ">>
P_UserA ==
    <<"U", "s", "e", "r", " ", "A", ":", " ", "h", "e", "l", "l", "o">>
P_Question ==
    <<"Q", "u", "e", "s", "t", "i", "o", "n", ":", " ", "x">>
P_Fine ==
    <<"I", "t", " ", "w", "o", "r", "k", "s", " ", "f", "i", "n", "e", ".">>
P_Lower ==
    <<"u", "s", "e", "r", " ", "a", ":", " ", "h", "i">>
P_Mid ==
    <<"W", "h", "y", "?", " ", "N", "o", ".">>
P_Break ==
    <<"a", "\n", "b">>
P_BreakQ ==
    <<"a", "\n", "b", "?">>
P_Blank ==
    <<" ", "\t">>
P_Empty ==
    <<>>

RawParas ==
    {P_Ok, P_UserA, P_Question, P_Fine, P_Lower, P_Mid, P_Break, P_BreakQ,
     P_Blank, P_Empty}

\* The lines read_docx can return: stripped and not empty.
Lines ==
    {strip(p) : p \in RawParas} \ {<<>>}

SeqsUpTo(S, n) ==
    UNION {[1..k -> S] : k \in 0..n}

NoFile ==
    [kind |-> "none", paragraphs |-> <<>>]

MalformedFile ==
    [kind |-> "malformed", paragraphs |-> <<>>]

\* Paragraph texts of the uploaded documents: a question that needs
\* stripping, a labelled question, an answer, an answer with a line break,
\* and two paragraphs read_docx drops.
DocParas ==
    {P_Ok, P_UserA, P_Fine, P_Break, P_Blank, P_Empty}

DocxFiles ==
    {[kind |-> "docx", paragraphs |-> ps] : ps \in SeqsUpTo(DocParas, MaxParas)}

Files ==
    DocxFiles \cup {MalformedFile}

Keys ==
    {"", "key"}

GoodEndpoint ==
    "https://x.cognitiveservices.azure.com/"

MalformedEndpoint ==
    "not a url"

Endpoints ==
    {"", GoodEndpoint, MalformedEndpoint}

\* Texts given to summarize_with_azure when it is called directly.
Texts ==
    {<<>>, <<" ">>, <<" ", "\n", "\t">>, P_Fine, P_Ok}

\* Messages of the exceptions and of the service's document errors.
RateLimited ==
    <<"r", "a", "t", "e", " ", "l", "i", "m", "i", "t", "e", "d">>
Unauthorized ==
    <<"4", "0", "1">>
TimedOut ==
    <<"t", "i", "m", "e", "d", " ", "o", "u", "t">>
BadEndpoint ==
    <<"b", "a", "d", " ", "e", "n", "d", "p", "o", "i", "n", "t">>

\* Summary fragments the service returns.
F_One ==
    <<"I", "t", " ", "i", "s", " ", "f", "i", "n", "e", ".">>
F_Two ==
    <<"T", "w", "o", " ", "w", "o", "r", "d", "s">>

Fragments ==
    {F_One, F_Two}

ErrorDoc(m) ==
    [is_error |-> TRUE, error_message |-> m, summaries |-> <<>>]

SummaryDoc(fs) ==
    [is_error |-> FALSE, error_message |-> <<>>, summaries |-> fs]

\* One document is submitted (line 51), so one document comes back.
ResultDocs ==
    {ErrorDoc(m) : m \in {RateLimited, Unauthorized}}
        \cup {SummaryDoc(fs) : fs \in SeqsUpTo(Fragments, MaxFragments)}

NoResult ==
    [raises |-> FALSE, message |-> <<>>, docs |-> <<>>]

Raises(m) ==
    [raises |-> TRUE, message |-> m, docs |-> <<>>]

Returns(docs) ==
    [raises |-> FALSE, message |-> <<>>, docs |-> docs]

\* What TextAnalyticsClient(...) can do with the sidebar values (lines 14-17):
\* build a client, or reject a malformed endpoint with an exception.
ConstructorOutcomes ==
    {NoResult} \cup
        (IF AZURE_ENDPOINT = MalformedEndpoint THEN {Raises(BadEndpoint)} ELSE {})

\* What client.begin_abstract_summary can do (line 51): start the
\* long-running operation, or fail (network, authentication).
BeginOutcomes ==
    {NoResult, Raises(TimedOut), Raises(Unauthorized)}

\* What poller.result() can do (line 52).
PollOutcomes ==
    {Raises(TimedOut)} \cup {Returns(<<d>>) : d \in ResultDocs}

-----------------------------------------------------------------------------
(* Rendered elements *)

Element(widget, name, text) ==
    [widget |-> widget, name |-> name, text |-> text]

Show(e) ==
    shown' = Append(shown, e)

Shown(e) ==
    \E i \in 1..Len(shown) : shown[i] = e

\* The elements of lines 94-110, in order.
ResultElements(q, a, s) ==
    << Element("success", "", CompleteMsg),
       Element("text_area", "Questions List", q),
       Element("download_button", "questions.txt", q),
       Element("text_area", "Answers List", a),
       Element("download_button", "answers.txt", a),
       Element("info", "", s),
       Element("download_button", "summary_final.txt", s) >>

-----------------------------------------------------------------------------
(* A script run: Streamlit runs app.py top to bottom after every interaction *)

FreshRun ==
    /\ pc' = "gate"
    /\ button_shown' = FALSE
    /\ lines' = <<>>
    /\ questions' = <<>>
    /\ answers' = <<>>
    /\ questions_txt' = None
    /\ answers_txt' = None
    /\ text_to_summarize' = None
    /\ client' = FALSE
    /\ request_sent' = FALSE
    /\ result' = NoResult
    /\ summary_txt' = None
    /\ raised' = None
    /\ shown' = <<>>
    /\ stages' = {}
    /\ UNCHANGED caller

\* The user types a key in the sidebar (line 10).
EnterKey ==
    /\ pc = "idle"
    /\ \E k \in Keys \ {AZURE_KEY} : AZURE_KEY' = k
    /\ clicked' = FALSE
    /\ FreshRun
    /\ UNCHANGED <<uploaded_file, AZURE_ENDPOINT>>

\* The user types an endpoint in the sidebar (line 11).
EnterEndpoint ==
    /\ pc = "idle"
    /\ \E e \in Endpoints \ {AZURE_ENDPOINT} : AZURE_ENDPOINT' = e
    /\ clicked' = FALSE
    /\ FreshRun
    /\ UNCHANGED <<uploaded_file, AZURE_KEY>>

\* The user uploads, replaces or removes the file (line 75).
Upload ==
    /\ pc = "idle"
    /\ \E f \in (Files \cup {NoFile}) \ {uploaded_file} : uploaded_file' = f
    /\ clicked' = FALSE
    /\ FreshRun
    /\ UNCHANGED <<AZURE_KEY, AZURE_ENDPOINT>>

\* The user presses the button the last run rendered (line 81).
Click ==
    /\ pc = "idle"
    /\ button_shown
    /\ clicked' = TRUE
    /\ FreshRun
    /\ UNCHANGED <<uploaded_file, AZURE_KEY, AZURE_ENDPOINT>>

\* Line 77.
Gate ==
    /\ pc = "gate"
    /\ pc' = IF uploaded_file.kind # "none" /\ AZURE_KEY # "" /\ AZURE_ENDPOINT # ""
             THEN "read"
             ELSE "advise"
    /\ UNCHANGED <<uploaded_file, AZURE_KEY, AZURE_ENDPOINT, clicked,
                   button_shown, caller, lines, questions, answers,
                   questions_txt, answers_txt, text_to_summarize, client,
                   request_sent, result, summary_txt, raised, shown, stages>>

\* Line 79. An exception of read_docx is raised outside any try block, so
\* it ends the script run.
ReadDocx ==
    /\ pc = "read"
    /\ stages' = stages \cup {"extract"}
    /\ IF read_docx_raises(uploaded_file)
       THEN /\ raised' = <<"B", "a", "d", "Z", "i", "p", "F", "i", "l", "e">>
            /\ pc' = "idle"
            /\ UNCHANGED lines
       ELSE /\ lines' = read_docx(uploaded_file)
            /\ pc' = "button"
            /\ UNCHANGED raised
    /\ UNCHANGED <<uploaded_file, AZURE_KEY, AZURE_ENDPOINT, clicked,
                   button_shown, caller, questions, answers, questions_txt,
                   answers_txt, text_to_summarize, client, request_sent,
                   result, summary_txt, shown>>

\* A variant of line 81 that runs the analysis whether or not the button
\* was pressed.
Button_Ignored ==
    /\ pc = "button"
    /\ button_shown' = TRUE
    /\ pc' = "check_empty"
    /\ UNCHANGED <<uploaded_file, AZURE_KEY, AZURE_ENDPOINT, clicked, caller,
                   lines, questions, answers, questions_txt, answers_txt,
                   text_to_summarize, client, request_sent, result,
                   summary_txt, raised, shown, stages>>

\* Line 81: st.button renders the button and returns whether it was pressed.
Button ==
    /\ pc = "button"
    /\ button_shown' = TRUE
    /\ pc' = IF clicked THEN "check_empty" ELSE "idle"
    /\ UNCHANGED <<uploaded_file, AZURE_KEY, AZURE_ENDPOINT, clicked, caller,
                   lines, questions, answers, questions_txt, answers_txt,
                   text_to_summarize, client, request_sent, result,
                   summary_txt, raised, shown, stages>>

\* Lines 82-84.
CheckEmpty ==
    /\ pc = "check_empty"
    /\ IF lines = <<>>
       THEN /\ Show(Element("error", "", EmptyFileMsg))
            /\ pc' = "idle"
       ELSE /\ pc' = "split"
            /\ UNCHANGED shown
    /\ UNCHANGED <<uploaded_file, AZURE_KEY, AZURE_ENDPOINT, clicked,
                   button_shown, caller, lines, questions, answers,
                   questions_txt, answers_txt, text_to_summarize, client,
                   request_sent, result, summary_txt, raised, stages>>

\* Line 88: the call of split_qa.
SplitQA ==
    /\ pc = "split"
    /\ LET r == split_qa(lines)
       IN  /\ questions' = r.questions
           /\ answers' = r.answers
           /\ questions_txt' = r.questions_txt
           /\ answers_txt' = r.answers_txt
    /\ stages' = stages \cup {"classify"}
    /\ pc' = "summarize"
    /\ UNCHANGED <<uploaded_file, AZURE_KEY, AZURE_ENDPOINT, clicked,
                   button_shown, caller, lines, text_to_summarize, client,
                   request_sent, result, summary_txt, raised, shown>>

-----------------------------------------------------------------------------
(* summarize_with_azure, lines 42-64 *)

\* Where control goes when summarize_with_azure returns: line 94 of the
\* script, or back to a direct caller.
ReturnSite ==
    IF caller = "script" THEN "render" ELSE "done"

\* Where control goes when an exception leaves summarize_with_azure: the
\* except clause of line 112 of the script, or a direct caller.
HandlerSite ==
    IF caller = "script" THEN "except" ELSE "done"

\* A variant of line 44 without the strip: not text_to_summarize
is_blank_NoStrip(text) ==
    text = <<>>

\* Line 44: not text_to_summarize.strip()
is_blank(text) ==
    strip(text) = <<>>

\* Lines 91 and 42-45: the call, and the early return on a blank text.
SummarizeEntry ==
    /\ pc = "summarize"
    /\ text_to_summarize' = answers_txt
    /\ stages' = stages \cup {"summarize"}
    /\ IF is_blank(answers_txt)
       THEN /\ summary_txt' = NoTextMsg
            /\ pc' = ReturnSite
       ELSE /\ pc' = "get_client"
            /\ UNCHANGED summary_txt
    /\ UNCHANGED <<uploaded_file, AZURE_KEY, AZURE_ENDPOINT, clicked,
                   button_shown, caller, lines, questions, answers,
                   questions_txt, answers_txt, client, request_sent, result,
                   raised, shown>>

\* Line 47 (get_language_client, lines 13-17), before the try of line 49.
GetClient ==
    /\ pc = "get_client"
    /\ \E o \in ConstructorOutcomes :
          IF o.raises
          THEN /\ raised' = o.message
               /\ pc' = HandlerSite
               /\ UNCHANGED client
          ELSE /\ client' = TRUE
               /\ pc' = "begin"
               /\ UNCHANGED raised
    /\ UNCHANGED <<uploaded_file, AZURE_KEY, AZURE_ENDPOINT, clicked,
                   button_shown, caller, lines, questions, answers,
                   questions_txt, answers_txt, text_to_summarize,
                   request_sent, result, summary_txt, shown, stages>>

\* Line 51, inside the try: an exception is caught by lines 63-64.
Begin ==
    /\ pc = "begin"
    /\ request_sent' = TRUE
    /\ \E o \in BeginOutcomes :
          IF o.raises
          THEN /\ result' = o
               /\ summary_txt' = LogicErrorPrefix \o o.message
               /\ pc' = ReturnSite
          ELSE /\ pc' = "poll"
               /\ UNCHANGED <<result, summary_txt>>
    /\ UNCHANGED <<uploaded_file, AZURE_KEY, AZURE_ENDPOINT, clicked,
                   button_shown, caller, lines, questions, answers,
                   questions_txt, answers_txt, text_to_summarize, client,
                   raised, shown, stages>>

\* Lines 52-64: wait for the result and turn it into the returned string.
Poll ==
    /\ pc = "poll"
    /\ \E o \in PollOutcomes :
          /\ result' = o
          /\ summary_txt' = IF o.raises
                            THEN LogicErrorPrefix \o o.message
                            ELSE summarize_docs(o.docs, <<>>)
    /\ pc' = ReturnSite
    /\ UNCHANGED <<uploaded_file, AZURE_KEY, AZURE_ENDPOINT, clicked,
                   button_shown, caller, lines, questions, answers,
                   questions_txt, answers_txt, text_to_summarize, client,
                   request_sent, raised, shown, stages>>

-----------------------------------------------------------------------------
(* The rest of the script *)

\* Lines 94-110.
Render ==
    /\ pc = "render"
    /\ shown' = shown \o ResultElements(questions_txt, answers_txt, summary_txt)
    /\ stages' = stages \cup {"render"}
    /\ pc' = "idle"
    /\ UNCHANGED <<uploaded_file, AZURE_KEY, AZURE_ENDPOINT, clicked,
                   button_shown, caller, lines, questions, answers,
                   questions_txt, answers_txt, text_to_summarize, client,
                   request_sent, result, summary_txt, raised>>

\* Lines 112-113.
Except ==
    /\ pc = "except"
    /\ Show(Element("error", "", CriticalErrorPrefix \o raised))
    /\ raised' = None
    /\ pc' = "idle"
    /\ UNCHANGED <<uploaded_file, AZURE_KEY, AZURE_ENDPOINT, clicked,
                   button_shown, caller, lines, questions, answers,
                   questions_txt, answers_txt, text_to_summarize, client,
                   request_sent, result, summary_txt, stages>>

\* A variant of lines 115-118 that tests for the file first.
Advise_FileFirst ==
    /\ pc = "advise"
    /\ IF uploaded_file.kind = "none"
       THEN Show(Element("info", "", UploadMsg))
       ELSE Show(Element("warning", "", CredentialsMsg))
    /\ pc' = "idle"
    /\ UNCHANGED <<uploaded_file, AZURE_KEY, AZURE_ENDPOINT, clicked,
                   button_shown, caller, lines, questions, answers,
                   questions_txt, answers_txt, text_to_summarize, client,
                   request_sent, result, summary_txt, raised, stages>>

\* Lines 114-118.
Advise ==
    /\ pc = "advise"
    /\ IF ~(AZURE_KEY # "" /\ AZURE_ENDPOINT # "")
       THEN Show(Element("warning", "", CredentialsMsg))
       ELSE Show(Element("info", "", UploadMsg))
    /\ pc' = "idle"
    /\ UNCHANGED <<uploaded_file, AZURE_KEY, AZURE_ENDPOINT, clicked,
                   button_shown, caller, lines, questions, answers,
                   questions_txt, answers_txt, text_to_summarize, client,
                   request_sent, result, summary_txt, raised, stages>>

-----------------------------------------------------------------------------
(* The application: the first script run starts with nothing entered *)

Init ==
    /\ uploaded_file = NoFile
    /\ AZURE_KEY = ""
    /\ AZURE_ENDPOINT = ""
    /\ clicked = FALSE
    /\ button_shown = FALSE
    /\ caller = "script"
    /\ pc = "gate"
    /\ lines = <<>>
    /\ questions = <<>>
    /\ answers = <<>>
    /\ questions_txt = None
    /\ answers_txt = None
    /\ text_to_summarize = None
    /\ client = FALSE
    /\ request_sent = FALSE
    /\ result = NoResult
    /\ summary_txt = None
    /\ raised = None
    /\ shown = <<>>
    /\ stages = {}

Next ==
    \/ EnterKey
    \/ EnterEndpoint
    \/ Upload
    \/ Click
    \/ Gate
    \/ ReadDocx
    \/ Button
    \/ CheckEmpty
    \/ SplitQA
    \/ SummarizeEntry
    \/ GetClient
    \/ Begin
    \/ Poll
    \/ Render
    \/ Except
    \/ Advise

Spec ==
    Init /\ [][Next]_vars

-----------------------------------------------------------------------------
(* The helper functions called directly, on any lines and any text *)

InitFn ==
    /\ uploaded_file = NoFile
    /\ AZURE_KEY = "key"
    /\ AZURE_ENDPOINT \in {GoodEndpoint, MalformedEndpoint}
    /\ clicked = FALSE
    /\ button_shown = FALSE
    /\ caller = "direct"
    /\ \/ /\ pc = "split"
          /\ lines \in SeqsUpTo(Lines, MaxLines)
          /\ answers_txt = None
       \/ /\ pc = "summarize"
          /\ lines = <<>>
          /\ answers_txt \in Texts
    /\ questions = <<>>
    /\ answers = <<>>
    /\ questions_txt = None
    /\ text_to_summarize = None
    /\ client = FALSE
    /\ request_sent = FALSE
    /\ result = NoResult
    /\ summary_txt = None
    /\ raised = None
    /\ shown = <<>>
    /\ stages = {}

NextFn ==
    \/ SplitQA
    \/ SummarizeEntry
    \/ GetClient
    \/ Begin
    \/ Poll

SpecFn ==
    InitFn /\ [][NextFn]_vars

-----------------------------------------------------------------------------
(* Properties of split_qa, checked under SpecFn *)

\* The entries of s at the positions in S, in the order of s.
Pick(s, S) ==
    LET F[i \in 0..Len(s)] ==
            IF i = 0 THEN <<>>
            ELSE IF i \in S THEN Append(F[i - 1], s[i]) ELSE F[i - 1]
    IN  F[Len(s)]

InSeq(x, s) ==
    \E i \in 1..Len(s) : s[i] = x

\* C1: split_qa partitions its input: the positions of the input divide
\* into two sets, Questions holds the entries at the first set and Answers
\* the entries at the second, each in input order, so that the two lengths
\* add up to the length of the input.
C1_Partition ==
    "classify" \in stages =>
        /\ Len(questions) + Len(answers) = Len(lines)
        /\ \E S \in SUBSET (1..Len(lines)) :
              /\ questions = Pick(lines, S)
              /\ answers = Pick(lines, (1..Len(lines)) \ S)

\* C1: an input whose answers surround a question has been split.
C1_Witness ==
    /\ "classify" \in stages
    /\ Len(lines) = 3
    /\ IsQuestion(lines[2])
    /\ answers = <<lines[1], lines[3]>>

\* The marker occurs in the line, character by character.
OccursIn(marker, line) ==
    \E i \in 1..Len(line) :
        /\ i + Len(marker) - 1 <= Len(line)
        /\ \A j \in 1..Len(marker) : line[i + j - 1] = marker[j]

RoutedToQuestions(line) ==
    \/ (line # <<>> /\ line[Len(line)] = "?")
    \/ OccursIn(UserA, line)
    \/ OccursIn(QuestionLabel, line)

RoutedToAnswers(line) ==
    ~RoutedToQuestions(line)

RECURSIVE PySplit(_, _)
PySplit(s, c) ==
    IF \A i \in 1..Len(s) : s[i] # c THEN <<s>>
    ELSE LET i == CHOOSE k \in 1..Len(s) :
                      s[k] = c /\ \A j \in 1..(k - 1) : s[j] # c
         IN  <<SubSeq(s, 1, i - 1)>> \o PySplit(SubSeq(s, i + 1, Len(s)), c)

\* The entries a newline-joined string stands for; the empty string stands
\* for no entry.
EntriesOf(txt) ==
    IF txt = <<>> THEN <<>> ELSE PySplit(txt, NL)

HasLineBreak(line) ==
    \E i \in 1..Len(line) : line[i] = NL

\* C9 as claimed: splitting each returned string on the newline gives back
\* the lines classified as Questions, and those classified as Answers.
C9_OneLinePerEntry ==
    "classify" \in stages =>
        /\ EntriesOf(questions_txt) = questions
        /\ EntriesOf(answers_txt) = answers

\* C9 as amended: the same, for input lines that hold no line break.
C9_OneLinePerEntry_NoBreak ==
    ("classify" \in stages /\ \A i \in 1..Len(lines) : ~HasLineBreak(lines[i])) =>
        /\ EntriesOf(questions_txt) = questions
        /\ EntriesOf(answers_txt) = answers

\* C9: two questions and an answer without line breaks have been joined.
C9_Witness ==
    /\ "classify" \in stages
    /\ \A i \in 1..Len(lines) : ~HasLineBreak(lines[i])
    /\ Len(questions) = 2
    /\ Len(answers) = 1
    /\ Len(EntriesOf(questions_txt)) = 2

-----------------------------------------------------------------------------
(* Properties of summarize_with_azure, checked under SpecFn *)

\* C3 as claimed: no exception leaves summarize_with_azure; the call ends
\* with a returned string.
C3_NeverRaises ==
    pc = "done" /\ "summarize" \in stages =>
        raised = None /\ summary_txt # None

AllWhitespace(text) ==
    \A i \in 1..Len(text) : text[i] \in Whitespace

\* C4: a text that is empty or only whitespace gets the fixed placeholder
\* back, with no client built and no request sent; after split_qa the text
\* is such exactly when every line went to Questions.
C4_BlankText ==
    "summarize" \in stages =>
        /\ AllWhitespace(text_to_summarize) =>
              /\ pc = "done"
              /\ summary_txt = NoTextMsg
              /\ ~client
              /\ ~request_sent
              /\ raised = None
        /\ "classify" \in stages =>
              (AllWhitespace(text_to_summarize) <=> questions = lines)

\* C4: a text of blanks only got the placeholder.
C4_Witness ==
    /\ "summarize" \in stages
    /\ text_to_summarize = <<" ", "\n", "\t">>
    /\ summary_txt = NoTextMsg
    /\ ~client

\* s is the fragments fs, in order, with one space between neighbours.
IsSpaceJoined(s, fs) ==
    LET n == Len(fs)
        start[k \in 1..n] ==
            IF k = 1 THEN 1 ELSE start[k - 1] + Len(fs[k - 1]) + 1
    IN  /\ Len(s) = start[n] + Len(fs[n]) - 1
        /\ \A k \in 1..n : SubSeq(s, start[k], start[k] + Len(fs[k]) - 1) = fs[k]
        /\ \A k \in 1..(n - 1) : s[start[k] + Len(fs[k])] = SP

\* C8: when the remote call completes, an error document with message m
\* gives 'Azure Service Error: ' followed by m; a document without
\* fragments gives the fixed placeholder; otherwise the fragments come
\* back in order, joined by single spaces.
C8_ResultMapping ==
    (pc = "done" /\ ~result.raises /\ Len(result.docs) = 1) =>
        LET doc == result.docs[1]
        IN  /\ doc.is_error =>
                  /\ summary_txt = ServiceErrorPrefix \o doc.error_message
                  /\ OccursIn(doc.error_message, summary_txt)
            /\ (~doc.is_error /\ doc.summaries = <<>>) =>
                  summary_txt = NoSummaryMsg
            /\ (~doc.is_error /\ doc.summaries # <<>>) =>
                  IsSpaceJoined(summary_txt, doc.summaries)

\* C8: two fragments came back and were returned.
C8_Witness ==
    /\ pc = "done"
    /\ ~result.raises
    /\ Len(result.docs) = 1
    /\ result.docs[1] = SummaryDoc(<<F_Two, F_One>>)
    /\ summary_txt = F_Two \o <<SP>> \o F_One

-----------------------------------------------------------------------------
(* Properties of the script, checked under Spec *)

HasFile ==
    uploaded_file.kind # "none"

HasCredentials ==
    AZURE_KEY # "" /\ AZURE_ENDPOINT # ""

\* C5 as claimed: no stage runs unless a file is there, both credentials
\* are non-empty and the button was pressed.
C5_AllStagesGated ==
    stages # {} => (HasFile /\ HasCredentials /\ clicked)

\* C5 as amended: classification, summarization and the rendering of the
\* results run only with a file, both credentials and the button pressed;
\* extraction runs in every script run with a file and both credentials,
\* pressed or not.
C5_AnalysisGated ==
    /\ stages \cap {"classify", "summarize", "render"} # {} =>
          (HasFile /\ HasCredentials /\ clicked)
    /\ "extract" \in stages => (HasFile /\ HasCredentials)
    /\ (HasFile /\ HasCredentials /\ pc \notin {"gate", "read"}) =>
          "extract" \in stages

\* C5: a triggered run rendered its results.
C5_Witness ==
    /\ "render" \in stages
    /\ clicked
    /\ HasFile
    /\ HasCredentials

QuestionsPane ==
    Element("text_area", "Questions List", questions_txt)

AnswersPane ==
    Element("text_area", "Answers List", answers_txt)

\* C6 as claimed: a run that classified its lines ends with the Questions
\* and Answers panes rendered with the classifier's strings, and a failure
\* of the summarization shows in the summary pane only.
C6_PanesAlwaysShown ==
    (pc = "idle" /\ "classify" \in stages) =>
        /\ Shown(QuestionsPane)
        /\ Shown(AnswersPane)
        /\ Shown(Element("info", "", summary_txt))
        /\ \A i \in 1..Len(shown) : shown[i].widget # "error"

\* C7 as claimed: a run whose file cannot be read, or whose triggered
\* analysis finds no line, ends with an error message of the script, with
\* no classification and no summarization, and with no exception left
\* uncaught.
C7_InputErrorsShown ==
    (/\ pc = "idle"
     /\ "extract" \in stages
     /\ (read_docx_raises(uploaded_file) \/ (clicked /\ lines = <<>>))) =>
        /\ \E i \in 1..Len(shown) : shown[i].widget = "error"
        /\ "classify" \notin stages
        /\ "summarize" \notin stages
        /\ raised = None

CredentialsAdvisory ==
    Element("warning", "", CredentialsMsg)

UploadAdvisory ==
    Element("info", "", UploadMsg)

\* C10 as claimed: a finished run without a file shows the upload
\* advisory, and a finished run with an empty key or endpoint shows the
\* credentials advisory.
C10_EachAdvisoryShown ==
    pc = "idle" =>
        /\ ~HasFile => Shown(UploadAdvisory)
        /\ ~HasCredentials => Shown(CredentialsAdvisory)

\* C10 as amended: a finished run with an empty key or endpoint shows the
\* credentials advisory and not the upload advisory; the upload advisory is
\* shown exactly when the file is absent and both credentials are there.
C10_OneAdvisory ==
    pc = "idle" =>
        /\ ~HasCredentials =>
              (Shown(CredentialsAdvisory) /\ ~Shown(UploadAdvisory))
        /\ Shown(CredentialsAdvisory) => ~HasCredentials
        /\ Shown(UploadAdvisory) <=> (~HasFile /\ HasCredentials)

\* C10: a run with neither file nor key showed the credentials advisory.
C10_Witness ==
    /\ pc = "idle"
    /\ ~HasFile
    /\ AZURE_KEY = ""
    /\ Shown(CredentialsAdvisory)
====
